---- MODULE Spec2Model ----
(***************************************************************************)
(* A model of http_load_tester.py: HTTPLoadTester.run (the pacing loop,    *)
(* the gather and the report), HTTPLoadTester._make_request (one request   *)
(* unit) and HTTPLoadTester._print_report (the aggregation loop).          *)
(*                                                                         *)
(* Time is the wall clock read by time.time(), counted in clock ticks of   *)
(* 1/TicksPerSecond seconds.  The event loop is cooperative: a unit runs   *)
(* only while run() is suspended in asyncio.sleep or asyncio.gather.       *)
(***************************************************************************)
EXTENDS Integers, Sequences, FiniteSets, TLC

VARIABLES
    qps,         \* self._qps
    duration,    \* self._duration, in clock ticks
    pc,          \* where run() is: "init", "loop", "sleeping", "gather", "done", "crashed"
    now,         \* time.time(), in clock ticks
    start_time,  \* run()'s start_time
    wake_at,     \* the time the pending asyncio.sleep is due
    tasks,       \* run()'s tasks list, one record per created task
    responses,   \* self._responses
    report,      \* the reports printed so far, in order
    drifted      \* history: some wake-up from asyncio.sleep came late

vars == <<qps, duration, pc, now, start_time, wake_at, tasks, responses, report, drifted>>

----------------------------------------------------------------------------
(* Bounds of the model *)

(* the clock stops at MaxTime ticks *)
MaxTime == 4

(* the loop creates at most MaxUnits tasks (it binds only when qps < 0, where
   asyncio.sleep returns at once and the loop creates tasks without pause) *)
MaxUnits == 3

(* the collections a report is computed from have at most MaxLen entries *)
MaxLen == 3

(* the caps on the clock and on the tasks in the runs of main() *)
MainMaxTime == 24

MainMaxUnits == 12

(* Resolution of the clock: ticks per second *)
TicksPerSecond == 10

(* self._qps values tried: negative, zero, 5 and 10 requests per second *)
QpsValues == {-5, 0, 5, 10}

(* self._duration values tried, in clock ticks: -0.2s, 0s, 0.2s, 0.3s *)
DurationValues == {-2, 0, 2, 3}

(* response.status values the transport may return: one outside 200..599
   and one success *)
StatusCodes == {100, 200}

(* response.status values in the collections a report is computed from:
   below 200, success, client error, server error *)
ReportStatusCodes == {100, 200, 404, 503}

(* latencies, in ticks, of the responses in those collections *)
ReportLatencies == {0, 1, 2}

(* exception type names: subclasses of aiohttp.ClientError, and others *)
ClientErrors == {"ClientConnectorError"}

OtherExceptions == {"TimeoutError"}

----------------------------------------------------------------------------
(* The outcome records *)

HTTPReponse(status_code, latency) ==
    [type |-> "HTTPReponse", status_code |-> status_code, latency |-> latency]

ExceptionObject(name) == [type |-> name]

isinstanceHTTPReponse(response) == response.type = "HTTPReponse"

----------------------------------------------------------------------------
(* run(): the pacing loop *)

(* a variant of SleepDelay: the sleep is of one second *)
SleepDelayOneSecond(q) == TicksPerSecond

(* asyncio.sleep's argument 1 / self._qps, in clock ticks (qps # 0) *)
SleepDelay(q) ==
    IF q > 0 THEN TicksPerSecond \div q ELSE 0 - (TicksPerSecond \div (0 - q))

(* a variant of LoopCond: <= in place of < *)
LoopCondInclusive == now - start_time <= duration

(* while time.time() - start_time < self._duration *)
LoopCond == now - start_time < duration

(* a variant of SleepOver: the loop also waits for the units in flight *)
SleepOverClosedLoop ==
    now >= wake_at /\ \A i \in 1..Len(tasks) : tasks[i].state # "inflight"

(* a variant of SleepOver: the sleep returns one tick before it is due *)
SleepOverEarly == now >= wake_at - 1

(* asyncio.sleep returns once its delay has passed (at once if delay <= 0) *)
SleepOver == now >= wake_at

(* a variant of GatherReady: run() does not wait for the tasks *)
GatherNoWait(ts) == TRUE

(* asyncio.gather returns when every task has finished *)
GatherReady(ts) == \A i \in 1..Len(ts) : ts[i].state = "done"

(* asyncio.gather raises as soon as a task has ended with an exception *)
GatherRaises(ts) == \E i \in 1..Len(ts) : ts[i].state = "raised"

(* the await of asyncio.gather is over *)
GatherOver(ts) == GatherRaises(ts) \/ GatherReady(ts)

(* asyncio.create_task(self._make_request(session)); when run() suspends in
   asyncio.sleep the event loop runs the new task up to its first await:
   start = time.time() and the request is sent *)
NewTask == [state |-> "inflight", created_at |-> now, start |-> now, recorded |-> 0]

(* the units whose request is in flight *)
InFlight == {i \in 1..Len(tasks) : tasks[i].state = "inflight"}

(* run() is suspended, so the event loop runs the units *)
Suspended == pc \in {"sleeping", "gather"}

----------------------------------------------------------------------------
(* _make_request(): what a unit appends to self._responses *)

(* self._responses.append(HTTPReponse(status_code=..., latency=time.time() - start)) *)
RecordResponse(rs, status, start) == Append(rs, HTTPReponse(status, now - start))

(* a variant of Caught: only the except aiohttp.ClientError clause *)
CaughtClientErrorOnly(name) == name \in ClientErrors

(* except aiohttp.ClientError as e / except Exception as e *)
Caught(name) == name \in ClientErrors \/ name \in OtherExceptions

(* a variant of RecordFailure: the handler swallows the exception *)
RecordFailureSwallowed(rs, name) == rs

(* self._responses.append(e) *)
RecordFailure(rs, name) == Append(rs, ExceptionObject(name))

----------------------------------------------------------------------------
(* _print_report(): the aggregation loop *)

(* a variant of CounterInc: the entry is set to 1, not incremented *)
CounterSet(c, key) ==
    IF key \in DOMAIN c THEN [c EXCEPT ![key] = 1] ELSE c @@ (key :> 1)

(* Counter()[key] += 1 *)
CounterInc(c, key) ==
    IF key \in DOMAIN c THEN [c EXCEPT ![key] = @ + 1] ELSE c @@ (key :> 1)

EmptyCounter == [k \in {} |-> 0]

InitialTally ==
    [error_count |-> 0,
     error_count_by_type |-> EmptyCounter,
     response_count |-> 0,
     response_count_success |-> 0,
     response_count_client_error |-> 0,
     response_count_server_error |-> 0,
     response_count_by_status |-> EmptyCounter,
     response_latencies |-> <<>>,
     response_latencies_success |-> <<>>]

(* a variant of CountResponse: the latency is not appended *)
CountResponseNoLatency(acc, response) ==
    [acc EXCEPT !.response_count = @ + 1,
                !.response_count_by_status = CounterInc(@, response.status_code)]

(* the tail of the isinstance branch: lines after the if/elif chain *)
CountResponse(acc, response) ==
    [acc EXCEPT !.response_count = @ + 1,
                !.response_count_by_status = CounterInc(@, response.status_code),
                !.response_latencies = Append(@, response.latency)]

(* the else branch: a recorded exception *)
CountError(acc, response) ==
    [acc EXCEPT !.error_count = @ + 1,
                !.error_count_by_type = CounterInc(@, response.type)]

(* one iteration of: for response in self._responses *)
TallyStep(acc, response) ==
    IF isinstanceHTTPReponse(response)
    THEN IF response.status_code >= 200 /\ response.status_code < 400
         THEN CountResponse(
                [acc EXCEPT !.response_count_success = @ + 1,
                            !.response_latencies_success = Append(@, response.latency)],
                response)
         ELSE IF response.status_code >= 400 /\ response.status_code < 500
         THEN CountResponse([acc EXCEPT !.response_count_client_error = @ + 1], response)
         ELSE IF response.status_code >= 500 /\ response.status_code < 600
         THEN CountResponse([acc EXCEPT !.response_count_server_error = @ + 1], response)
         ELSE acc   \* unknown status code: continue
    ELSE CountError(acc, response)

RECURSIVE Tally(_, _)
(* the whole loop over the first n entries of rs *)
Tally(rs, n) == IF n = 0 THEN InitialTally ELSE TallyStep(Tally(rs, n - 1), rs[n])

----------------------------------------------------------------------------
(* _print_report(): the statistics.  Latencies are whole clock ticks; a
   quotient is kept exact, as numerator and denominator. *)

(* Python's n / d, which raises ZeroDivisionError when d = 0 *)
Divide(n, d) == [num |-> n, den |-> d]

RECURSIVE SumSeq(_)
(* sum(response_latencies) *)
SumSeq(a) == IF a = <<>> THEN 0 ELSE a[1] + SumSeq(Tail(a))

RECURSIVE Insert(_, _)
(* x put into the ascending sequence a, before the first greater entry *)
Insert(a, x) ==
    IF a = <<>> THEN <<x>>
    ELSE IF x <= a[1] THEN <<x>> \o a
    ELSE <<a[1]>> \o Insert(Tail(a), x)

RECURSIVE Sorted(_)
(* numpy.percentile works on the values in ascending order *)
Sorted(a) == IF a = <<>> THEN <<>> ELSE Insert(Sorted(Tail(a)), a[1])

(* a variant of Arranged: the values are taken in the order recorded *)
ArrangedAsRecorded(a) == a

(* the order of the values numpy.percentile interpolates in *)
Arranged(a) == Sorted(a)

(* a variant of Interpolate: the lower neighbour, no interpolation *)
InterpolateLower(lo, hi, gamma) == Divide(100 * lo, 100)

(* numpy's linear method: lo + (hi - lo) * gamma, gamma in hundredths *)
Interpolate(lo, hi, gamma) == Divide(100 * lo + (hi - lo) * gamma, 100)

(* numpy.percentile(a, q), default method "linear": for a non-empty a the
   virtual index (n - 1) * q / 100 into the sorted values, its integer part
   the lower neighbour (0-based), its fraction the interpolation weight *)
Percentile(a, q) ==
    LET n == Len(a)
        virtual == (n - 1) * q
        prev == virtual \div 100
        gamma == virtual % 100
        next == IF prev + 1 > n - 1 THEN n - 1 ELSE prev + 1
        arr == Arranged(a)
    IN  IF n = 0
        THEN Divide(0, 0)   \* numpy gives nan for an empty input
        ELSE Interpolate(arr[prev + 1], arr[next + 1], gamma)

(* average and numpy.percentile(latencies, [50, 75, 95, 99]) of one group *)
LatencyStats(latencies, count) ==
    [average_latency |-> Divide(SumSeq(latencies), count),
     p50_latency |-> Percentile(latencies, 50),
     p75_latency |-> Percentile(latencies, 75),
     p95_latency |-> Percentile(latencies, 95),
     p99_latency |-> Percentile(latencies, 99)]

(* a variant of HasResponses: the statistics are printed for every report *)
HasResponsesAlways(t) == TRUE

(* if response_count > 0 *)
HasResponses(t) == t.response_count > 0

(* if response_count_success > 0 *)
HasSuccesses(t) == t.response_count_success > 0

(* the statistics lines printed: each group is <<>> when its lines are not
   printed, else one record of the values printed *)
Statistics(t) ==
    [overall |->
        IF HasResponses(t)
        THEN <<[success_rate |-> Divide(t.response_count_success, t.response_count)]
               @@ LatencyStats(t.response_latencies, t.response_count)>>
        ELSE <<>>,
     success |->
        IF HasResponses(t) /\ HasSuccesses(t)
        THEN <<LatencyStats(t.response_latencies_success, t.response_count_success)>>
        ELSE <<>>]

(* a variant of ResponsesAfterReport: the report drains the collection *)
ResponsesDrained(rs) == <<>>

(* self._responses after _print_report, which only reads it *)
ResponsesAfterReport(rs) == rs

(* the values _print_report prints *)
PrintReport(rs) ==
    LET t == Tally(rs, Len(rs))
    IN  [total_requests |-> Len(rs)] @@ t @@ Statistics(t)

----------------------------------------------------------------------------
(* The state machine *)

(* a negative qps is tried with the durations up to 0.2s: the loop then
   never pauses, and a longer duration only lets it create more tasks *)
Init ==
    /\ qps \in QpsValues
    /\ duration \in DurationValues
    /\ (qps < 0 => duration <= 2)
    /\ pc = "init"
    /\ now = 0
    /\ start_time = 0
    /\ wake_at = 0
    /\ tasks = <<>>
    /\ responses = <<>>
    /\ report = <<>>
    /\ drifted = FALSE

(* the wall clock advances while run() is suspended, up to the tick cap *)
TickUpTo(cap) ==
    /\ Suspended
    /\ now < cap
    /\ now' = now + 1
    /\ UNCHANGED <<qps, duration, pc, start_time, wake_at, tasks, responses, report, drifted>>

Tick == TickUpTo(MaxTime)

(* run(): open the session, tasks = [], start_time = time.time() *)
RunStart ==
    /\ pc = "init"
    /\ start_time' = now
    /\ pc' = "loop"
    /\ UNCHANGED <<qps, duration, now, wake_at, tasks, responses, report, drifted>>

(* one loop iteration: the condition holds, create the task, start the
   sleep; at most cap tasks are created *)
SpawnUpTo(cap) ==
    /\ pc = "loop"
    /\ LoopCond
    /\ qps # 0
    /\ Len(tasks) < cap
    /\ tasks' = Append(tasks, NewTask)
    /\ wake_at' = now + SleepDelay(qps)
    /\ pc' = "sleeping"
    /\ UNCHANGED <<qps, duration, now, start_time, responses, report, drifted>>

Spawn == SpawnUpTo(MaxUnits)

(* one loop iteration with qps = 0: the task is created, then 1 / self._qps
   raises ZeroDivisionError; run() ends with the exception and asyncio.run
   cancels the task, which has not run yet *)
SpawnCrash ==
    /\ pc = "loop"
    /\ LoopCond
    /\ qps = 0
    /\ tasks' = Append(tasks, [NewTask EXCEPT !.state = "cancelled"])
    /\ pc' = "crashed"
    /\ UNCHANGED <<qps, duration, now, start_time, wake_at, responses, report, drifted>>

(* asyncio.sleep returns, at its due time or later; back to the loop test *)
Wake ==
    /\ pc = "sleeping"
    /\ SleepOver
    /\ pc' = "loop"
    /\ drifted' = (drifted \/ now > wake_at)
    /\ UNCHANGED <<qps, duration, now, start_time, wake_at, tasks, responses, report>>

(* the loop condition fails: go on to asyncio.gather *)
ExitLoop ==
    /\ pc = "loop"
    /\ ~LoopCond
    /\ pc' = "gather"
    /\ UNCHANGED <<qps, duration, now, start_time, wake_at, tasks, responses, report, drifted>>

(* the response arrives, with one of the given status codes, and its body
   is read: append an HTTPReponse *)
RespondWith(i, statuses) ==
    /\ Suspended
    /\ tasks[i].state = "inflight"
    /\ \E status \in statuses :
         responses' = RecordResponse(responses, status, tasks[i].start)
    /\ tasks' = [tasks EXCEPT ![i].state = "done",
                              ![i].recorded = @ + Len(responses') - Len(responses)]
    /\ UNCHANGED <<qps, duration, pc, now, start_time, wake_at, report, drifted>>

Respond(i) == RespondWith(i, StatusCodes)

(* the request raises an exception: a caught one is appended to
   self._responses; one no except clause catches ends the task with it *)
Fail(i) ==
    /\ Suspended
    /\ tasks[i].state = "inflight"
    /\ \E name \in ClientErrors \cup OtherExceptions :
         IF Caught(name)
         THEN /\ responses' = RecordFailure(responses, name)
              /\ tasks' = [tasks EXCEPT ![i].state = "done",
                                        ![i].recorded = @ + Len(responses') - Len(responses)]
         ELSE /\ responses' = responses
              /\ tasks' = [tasks EXCEPT ![i].state = "raised"]
    /\ UNCHANGED <<qps, duration, pc, now, start_time, wake_at, report, drifted>>

(* await asyncio.gather: it raises the exception of a task that ended with
   one, and run() ends with it; else it returns once every task has finished
   and self._print_report() runs *)
Finish ==
    /\ pc = "gather"
    /\ GatherOver(tasks)
    /\ IF GatherRaises(tasks)
       THEN /\ pc' = "crashed"
            /\ report' = report
       ELSE /\ pc' = "done"
            /\ report' = Append(report, PrintReport(responses))
    /\ responses' = ResponsesAfterReport(responses)
    /\ UNCHANGED <<qps, duration, now, start_time, wake_at, tasks, drifted>>

Next ==
    \/ Tick
    \/ RunStart
    \/ Spawn
    \/ SpawnCrash
    \/ Wake
    \/ ExitLoop
    \/ \E i \in 1..Len(tasks) : Respond(i)
    \/ \E i \in 1..Len(tasks) : Fail(i)
    \/ Finish

Spec == Init /\ [][Next]_vars

(* The runs with a positive qps and a positive duration, under the fairness
   of the event loop: the clock advances, run() takes its next step when it
   can, and every request in flight ends.  SpawnCrash needs qps = 0. *)
LiveInit == Init /\ qps > 0 /\ duration > 0

LiveNext ==
    \/ Tick
    \/ RunStart
    \/ Spawn
    \/ Wake
    \/ ExitLoop
    \/ \E i \in 1..Len(tasks) : Respond(i)
    \/ \E i \in 1..Len(tasks) : Fail(i)
    \/ Finish

Fairness ==
    /\ WF_vars(Tick)
    /\ WF_vars(RunStart \/ Spawn \/ Wake \/ ExitLoop \/ Finish)
    /\ \A i \in 1..MaxUnits :
         WF_vars(i \in DOMAIN tasks /\ (Respond(i) \/ Fail(i)))

LiveSpec == LiveInit /\ [][LiveNext]_vars /\ Fairness

----------------------------------------------------------------------------
(* main(): HTTPLoadTester(url, duration=2, qps=5).run() against a server
   that answers every request with status 200 in negligible time: a request
   ends before the clock advances, and over the run the loop falls behind
   its tick boundaries by at most one tick interval. *)

MainQps == 5

MainDuration == 2 * TicksPerSecond

MainInit ==
    /\ qps = MainQps
    /\ duration = MainDuration
    /\ pc = "init"
    /\ now = 0
    /\ start_time = 0
    /\ wake_at = 0
    /\ tasks = <<>>
    /\ responses = <<>>
    /\ report = <<>>
    /\ drifted = FALSE

(* how far behind its tick boundary the pending wake-up would be at time t *)
Lateness(t) == t - (start_time + Len(tasks) * SleepDelay(qps))

MainTick ==
    /\ InFlight = {}
    /\ pc = "sleeping" => Lateness(now + 1) <= SleepDelay(qps)
    /\ TickUpTo(MainMaxTime)

MainSpawn == SpawnUpTo(MainMaxUnits)

MainRespond(i) == RespondWith(i, {200})

MainNext ==
    \/ MainTick
    \/ RunStart
    \/ MainSpawn
    \/ Wake
    \/ ExitLoop
    \/ \E i \in 1..Len(tasks) : MainRespond(i)
    \/ Finish

MainSpec == MainInit /\ [][MainNext]_vars

----------------------------------------------------------------------------
(* _print_report() as a function of the collection: the tester is taken at
   the end of a run that recorded a given collection, the report is printed,
   and _print_report is called again on the same tester. *)

(* what a unit may have recorded *)
ReportOutcomes ==
    {HTTPReponse(status, latency) :
        status \in ReportStatusCodes, latency \in ReportLatencies}
    \cup {ExceptionObject(name) : name \in ClientErrors \cup OtherExceptions}

Collections == UNION {[1..n -> ReportOutcomes] : n \in 0..MaxLen}

(* a run at 10 requests per second with one unit per tick and no drift, each
   unit finished, the loop exited, run() waiting in asyncio.gather *)
ReportInit ==
    /\ responses \in Collections
    /\ qps = TicksPerSecond
    /\ duration = Len(responses)
    /\ pc = "gather"
    /\ now = Len(responses) + 2
    /\ start_time = 0
    /\ wake_at = Len(responses)
    /\ tasks = [i \in 1..Len(responses) |->
                  [state |-> "done", created_at |-> i - 1, start |-> i - 1,
                   recorded |-> 1]]
    /\ report = <<>>
    /\ drifted = FALSE

(* self._print_report() called a second time on the tester *)
PrintReportAgain ==
    /\ pc = "done"
    /\ Len(report) = 1
    /\ report' = Append(report, PrintReport(responses))
    /\ responses' = ResponsesAfterReport(responses)
    /\ UNCHANGED <<qps, duration, pc, now, start_time, wake_at, tasks, drifted>>

ReportNext ==
    \/ Finish
    \/ PrintReportAgain

ReportSpec == ReportInit /\ [][ReportNext]_vars

----------------------------------------------------------------------------
(* Notions the properties use *)

Elapsed == now - start_time

PositiveConfig == qps > 0 /\ duration > 0

LoopExited == pc \in {"gather", "done"}

Reported == Len(report) > 0

AllTasksDone == \A i \in 1..Len(tasks) : tasks[i].state = "done"

(* the tick boundaries k / qps, k = 0, 1, 2, ..., inside the duration window *)
TickBoundaries == {k \in 0..MaxTime : k * SleepDelay(qps) < duration}

IsFailure(r) == ~isinstanceHTTPReponse(r)

OutOfRange(r) ==
    isinstanceHTTPReponse(r) /\ ~(r.status_code >= 200 /\ r.status_code < 600)

NumOutOfRange == Cardinality({i \in 1..Len(responses) : OutOfRange(responses[i])})

----------------------------------------------------------------------------
(* The properties *)

(* C1: every unit records at most one outcome at any time and exactly one once
   it has finished; the collection holds one entry per finished unit and, when
   the report is printed, one per unit started; a unit that fails never ends
   with an exception, so run() is aborted by nothing but its own division by
   a zero qps. *)
C1_ExactlyOneOutcomePerUnit ==
    /\ \A i \in 1..Len(tasks) :
         /\ tasks[i].recorded <= 1
         /\ tasks[i].state = "done" <=> tasks[i].recorded = 1
         /\ tasks[i].state # "raised"
    /\ Len(responses) = Cardinality({i \in 1..Len(tasks) : tasks[i].state = "done"})
    /\ pc = "crashed" => qps = 0
    /\ Reported => /\ Len(responses) = Len(tasks)
                   /\ report[1].total_requests = Len(tasks)

C1_Witness ==
    /\ Reported
    /\ Len(tasks) = 3
    /\ \E i \in 1..3 : IsFailure(responses[i])
    /\ \E i \in 1..3 : isinstanceHTTPReponse(responses[i])

(* C2: when the report is printed the duration window has closed, every unit
   started has finished and recorded its outcome, and the report is the one
   of the final collection: nothing is recorded during or after it. *)
C2_ReportAfterAllUnits ==
    Reported =>
      /\ Elapsed >= duration
      /\ AllTasksDone
      /\ Len(responses) = Len(tasks)
      /\ report[1] = PrintReport(responses)

C2_Witness ==
    /\ Reported
    /\ Len(tasks) >= 2
    /\ tasks[Len(tasks)].created_at - start_time = duration - 1
    /\ \E i \in 1..Len(responses) :
         isinstanceHTTPReponse(responses[i]) /\ responses[i].latency >= 2

(* C3: the report satisfies response_count + error_count = total. *)
C3_CountsSumToTotal ==
    Reported =>
      report[1].response_count + report[1].error_count = report[1].total_requests

(* C4: the three bucket counts sum to response_count minus the number of
   responses whose status is outside 200..599, those being counted in
   response_count. *)
C4_BucketsExcludeOutOfRange ==
    Reported =>
      report[1].response_count_success + report[1].response_count_client_error
          + report[1].response_count_server_error
        = report[1].response_count - NumOutOfRange

(* C5: with qps <= 0 or duration <= 0 no unit is created, no outcome is
   recorded and no report is printed. *)
C5_BadConfigStartsNothing ==
    (qps <= 0 \/ duration <= 0) =>
      /\ tasks = <<>>
      /\ responses = <<>>
      /\ report = <<>>

(* C6: for positive qps and duration, once the loop has exited the number of
   units started is the number of tick boundaries inside the window. *)
C6_OneUnitPerTickBoundary ==
    (PositiveConfig /\ LoopExited) => Len(tasks) = Cardinality(TickBoundaries)

(* C7: the loop is open: a due wake-up and the start of the next unit are
   enabled whatever the state of the earlier units, and without drift the
   number of units started is the number of tick boundaries, however slowly
   the units complete. *)
C7_OpenLoop ==
    /\ (pc = "sleeping" /\ now >= wake_at) => ENABLED Wake
    /\ (pc = "loop" /\ Elapsed < duration /\ qps # 0 /\ Len(tasks) < MaxUnits)
         => ENABLED Spawn
    /\ (PositiveConfig /\ LoopExited /\ ~drifted)
         => Len(tasks) = Cardinality(TickBoundaries)

C7_Witness ==
    /\ PositiveConfig
    /\ LoopExited
    /\ Len(tasks) = 3
    /\ Cardinality(TickBoundaries) = 3
    /\ InFlight = {1, 2, 3}

(* C8: every unit is created at an elapsed time below the duration; once the
   loop has exited the elapsed time is at least the duration; and the report
   is printed only when all units created have finished. *)
C8_NoUnitAfterDeadline ==
    /\ \A i \in 1..Len(tasks) : tasks[i].created_at - start_time < duration
    /\ LoopExited => Elapsed >= duration
    /\ Reported => AllTasksDone

C8_Witness ==
    /\ PositiveConfig
    /\ pc = "done"
    /\ Len(tasks) = 2
    /\ tasks[2].created_at - start_time = duration - 1
    /\ Elapsed > duration

(* C9: for positive qps and duration, under the fairness of the event loop
   the report is eventually printed; it is printed at most once; and once it
   is printed neither it nor the collection changes. *)
C9_ReportEventuallyOnce ==
    /\ PositiveConfig => <>Reported
    /\ [](Len(report) <= 1)
    /\ [][Reported => (report' = report /\ responses' = responses)]_vars

C9_Witness ==
    /\ PositiveConfig
    /\ pc = "done"
    /\ Len(report) = 1
    /\ Len(responses) = 3
    /\ drifted

(* C10: when at least one unit ran and all units failed with one kind of
   exception, run() ends normally and the report shows error_count = total,
   response_count = 0 and one error kind, counted total times. *)
C10_AllFailuresOneKind ==
    \A name \in ClientErrors \cup OtherExceptions :
      ( /\ Len(tasks) >= 1
        /\ AllTasksDone
        /\ \A i \in 1..Len(responses) : responses[i].type = name )
      => /\ pc # "crashed"
         /\ Reported =>
              /\ pc = "done"
              /\ report[1].error_count = report[1].total_requests
              /\ report[1].total_requests = Len(tasks)
              /\ report[1].response_count = 0
              /\ DOMAIN report[1].error_count_by_type = {name}
              /\ report[1].error_count_by_type[name] = report[1].total_requests

C10_Witness ==
    /\ Reported
    /\ Len(tasks) = 3
    /\ \A i \in 1..Len(responses) : responses[i].type = "ClientConnectorError"

----------------------------------------------------------------------------
(* Notions the properties of the report use *)

(* the exact quotients a and b (positive denominators) satisfy a <= b *)
LeqQ(a, b) == a.num * b.den <= b.num * a.den

(* the exact quotient a equals the whole number n *)
EqualsInt(a, n) == a.den # 0 /\ a.num = n * a.den

(* the rearrangements of n entries: the bijections of 1..n *)
Arrangements(n) == Permutations(1..n)

Permuted(a, f) == [i \in 1..Len(a) |-> a[f[i]]]

IsAscending(a) == \A i, j \in 1..Len(a) : i <= j => a[i] <= a[j]

(* the order statistics of a: its ascending rearrangement *)
OrderStatistics(a) ==
    CHOOSE b \in {Permuted(a, f) : f \in Arrangements(Len(a))} : IsAscending(b)

(* v is the linear interpolation between the adjacent entries of the
   non-empty order statistics b at the fractional rank (n - 1) * p / 100 *)
IsInterpolatedRank(v, b, p) ==
    LET n == Len(b)
        j == CHOOSE k \in 0..(n - 1) :
                 100 * k <= (n - 1) * p /\ (n - 1) * p < 100 * (k + 1)
        frac == (n - 1) * p - 100 * j
    IN  /\ v.den # 0
        /\ IF frac = 0
           THEN v.num * 100 = v.den * 100 * b[j + 1]
           ELSE v.num * 100 = v.den * (100 * b[j + 1] + frac * (b[j + 2] - b[j + 1]))

(* the statistics groups printed, each with the latencies it is computed from *)
PrintedGroups(r) ==
    {<<r.overall[k], r.response_latencies>> : k \in 1..Len(r.overall)}
    \cup {<<r.success[k], r.response_latencies_success>> : k \in 1..Len(r.success)}

MinOf(a) == CHOOSE x \in {a[i] : i \in 1..Len(a)} : \A i \in 1..Len(a) : x <= a[i]

MaxOf(a) == CHOOSE x \in {a[i] : i \in 1..Len(a)} : \A i \in 1..Len(a) : x >= a[i]

(* the printed values that are counts, breakdowns or percentiles *)
CountsAndPercentiles(r) ==
    LET Pct(g) == [k \in 1..Len(g) |->
                     <<g[k].p50_latency, g[k].p75_latency,
                       g[k].p95_latency, g[k].p99_latency>>]
    IN  [total_requests |-> r.total_requests,
         error_count |-> r.error_count,
         error_count_by_type |-> r.error_count_by_type,
         response_count |-> r.response_count,
         response_count_success |-> r.response_count_success,
         response_count_client_error |-> r.response_count_client_error,
         response_count_server_error |-> r.response_count_server_error,
         response_count_by_status |-> r.response_count_by_status,
         overall |-> Pct(r.overall),
         success |-> Pct(r.success)]

RECURSIVE SumCounts(_, _)
(* the sum of the counts of c over the keys *)
SumCounts(c, keys) ==
    IF keys = {} THEN 0
    ELSE LET k == CHOOSE x \in keys : TRUE
         IN  c[k] + SumCounts(c, keys \ {k})

Failures == {i \in 1..Len(responses) : IsFailure(responses[i])}

(* every quotient printed in the statistics groups *)
PrintedQuotients(r) ==
    {r.overall[k].success_rate : k \in 1..Len(r.overall)}
    \cup UNION {{g[1].average_latency, g[1].p50_latency, g[1].p75_latency,
                 g[1].p95_latency, g[1].p99_latency} :
                   g \in {x \in {r.overall, r.success} : x # <<>>}}

(* the percentiles printed for a group *)
PrintedPercentile(g, p) ==
    IF p = 50 THEN g.p50_latency
    ELSE IF p = 75 THEN g.p75_latency
    ELSE IF p = 95 THEN g.p95_latency
    ELSE g.p99_latency

----------------------------------------------------------------------------
(* The properties of the report *)

(* C12: each percentile printed for a non-empty group of n latencies is the
   linear interpolation between the adjacent order statistics at the
   fractional rank (n - 1) * p / 100; for the latencies 10, 20, 30, 40 the
   p50 is 25. *)
C12_PercentileIsInterpolation ==
    /\ EqualsInt(Percentile(<<10, 20, 30, 40>>, 50), 25)
    /\ Reported =>
         \A gl \in PrintedGroups(report[1]) :
           LET b == OrderStatistics(gl[2])
           IN  \A p \in {50, 75, 95, 99} :
                 IsInterpolatedRank(PrintedPercentile(gl[1], p), b, p)

C12_Witness ==
    /\ Reported
    /\ Len(report[1].overall) = 1
    /\ report[1].response_latencies = <<2, 0, 1>>
    /\ report[1].overall[1].p75_latency.num = 150
    /\ report[1].overall[1].p75_latency.den = 100

(* C13: the percentiles printed for a group are monotone, p50 <= p75 <= p95
   <= p99, and lie between the least and the greatest latency of the group. *)
C13_PercentilesMonotone ==
    Reported =>
      \A gl \in PrintedGroups(report[1]) :
        /\ LeqQ(Divide(MinOf(gl[2]), 1), gl[1].p50_latency)
        /\ LeqQ(gl[1].p50_latency, gl[1].p75_latency)
        /\ LeqQ(gl[1].p75_latency, gl[1].p95_latency)
        /\ LeqQ(gl[1].p95_latency, gl[1].p99_latency)
        /\ LeqQ(gl[1].p99_latency, Divide(MaxOf(gl[2]), 1))

C13_Witness ==
    /\ Reported
    /\ Len(report[1].overall) = 1
    /\ Len(report[1].success) = 1
    /\ report[1].response_latencies = <<2, 1, 0>>
    /\ report[1].response_latencies_success = <<2, 0>>
    /\ report[1].overall[1].p50_latency.num < report[1].overall[1].p99_latency.num

(* C14: the counts, the breakdowns and the percentiles of the report run()
   prints are those of the report of every rearrangement of the collection. *)
C14_OrderIndependent ==
    Len(report) = 1 =>
      \A f \in Arrangements(Len(responses)) :
        CountsAndPercentiles(PrintReport(Permuted(responses, f)))
          = CountsAndPercentiles(report[1])

C14_Witness ==
    /\ Reported
    /\ Len(responses) = 3
    /\ IsFailure(responses[1])
    /\ isinstanceHTTPReponse(responses[2]) /\ responses[2].latency = 2
    /\ isinstanceHTTPReponse(responses[3]) /\ responses[3].latency = 0
    /\ responses[2].status_code # responses[3].status_code

(* C15: a call of _print_report leaves the collection and the other fields
   of the tester unchanged, and a second call on the same tester prints the
   values of the first. *)
C15_ReportIsPure ==
    /\ [][Len(report') > Len(report) =>
            /\ responses' = responses
            /\ tasks' = tasks
            /\ <<qps', duration', start_time'>> = <<qps, duration, start_time>>]_vars
    /\ [](\A k \in 1..Len(report) : report[k] = report[1])

C15_Witness ==
    /\ Len(report) = 2
    /\ Len(responses) = 3
    /\ Len(report[2].overall) = 1
    /\ report[2].error_count = 1

(* C17: the error-kind tally has one entry per exception type recorded, its
   count the number of recorded exceptions of that type, at least 1, and the
   counts sum to error_count. *)
C17_ErrorKindTally ==
    Reported =>
      LET c == report[1].error_count_by_type
      IN  /\ DOMAIN c = {responses[i].type : i \in Failures}
          /\ \A name \in DOMAIN c :
               /\ c[name] = Cardinality({i \in Failures : responses[i].type = name})
               /\ c[name] >= 1
          /\ SumCounts(c, DOMAIN c) = report[1].error_count
          /\ report[1].error_count = Cardinality(Failures)

C17_Witness ==
    /\ Reported
    /\ Len(responses) = 3
    /\ Cardinality(DOMAIN report[1].error_count_by_type) = 2
    /\ \E name \in DOMAIN report[1].error_count_by_type :
         report[1].error_count_by_type[name] = 2

(* C18: with response_count = 0 no statistics are printed; with responses
   counted but no success the overall statistics are printed and the
   success-only ones are not; with successes both are; and no printed
   quotient has a zero denominator. *)
C18_StatisticsOnlyForNonEmptyGroups ==
    Reported =>
      LET r == report[1]
      IN  /\ r.response_count = 0 => (r.overall = <<>> /\ r.success = <<>>)
          /\ (r.response_count > 0 /\ r.response_count_success = 0)
               => (Len(r.overall) = 1 /\ r.success = <<>>)
          /\ (r.response_count > 0 /\ r.response_count_success > 0)
               => (Len(r.overall) = 1 /\ Len(r.success) = 1)
          /\ \A x \in PrintedQuotients(r) : x.den # 0

C18_Witness ==
    /\ Reported
    /\ report[1].total_requests = 3
    /\ report[1].response_count = 2
    /\ report[1].response_count_success = 0
    /\ Len(report[1].overall) = 1
    /\ report[1].success = <<>>

(* C20: response_count is the sum of the three bucket counts, the length of
   the overall latency list and the sum of the per-status counts; the
   success latency list has response_count_success entries. *)
C20_AggregationCountsAgree ==
    Reported =>
      LET r == report[1]
      IN  /\ r.response_count = r.response_count_success
                + r.response_count_client_error + r.response_count_server_error
          /\ r.response_count = Len(r.response_latencies)
          /\ r.response_count
               = SumCounts(r.response_count_by_status, DOMAIN r.response_count_by_status)
          /\ Len(r.response_latencies_success) = r.response_count_success

C20_Witness ==
    /\ Reported
    /\ report[1].response_count_success = 1
    /\ report[1].response_count_client_error = 1
    /\ report[1].response_count_server_error = 1

----------------------------------------------------------------------------
(* The properties of the outcomes and of the pacing *)

(* C16: every recorded outcome carries a latency, the time from the start
   of its unit to its recording: at most the time since the run started. *)
C16_EveryOutcomeHasLatency ==
    \A i \in 1..Len(responses) :
      /\ "latency" \in DOMAIN responses[i]
      /\ responses[i].latency >= 0
      /\ responses[i].latency <= now - start_time

(* rate * duration rounded up, duration being in clock ticks *)
CeilRateTimesDuration ==
    (qps * duration + TicksPerSecond - 1) \div TicksPerSecond

(* C19: for positive qps and duration, once the loop has exited it has
   created at least 1 and at most ceil(rate * duration) units, and the k-th
   unit (k from 0) was created at an elapsed time of at least k / rate. *)
C19_UnitCountBounds ==
    PositiveConfig =>
      /\ LoopExited => (Len(tasks) >= 1 /\ Len(tasks) <= CeilRateTimesDuration)
      /\ Len(tasks) <= CeilRateTimesDuration
      /\ \A i \in 1..Len(tasks) :
           (tasks[i].created_at - start_time) * qps >= (i - 1) * TicksPerSecond

C19_Witness ==
    /\ PositiveConfig
    /\ pc = "done"
    /\ drifted
    /\ Len(tasks) = 2
    /\ CeilRateTimesDuration = 3
    /\ tasks[2].created_at - start_time = 2
    /\ \E i \in 1..Len(responses) :
         isinstanceHTTPReponse(responses[i]) /\ responses[i].latency >= 2

(* C11: in the runs of main() against the always-200 server the loop creates
   between 9 and 11 units, and the report shows response_count equal to the
   number of units, error_count 0 and a success rate of 100%. *)
C11_MainRunCounts ==
    /\ LoopExited => (Len(tasks) >= 9 /\ Len(tasks) <= 11)
    /\ Reported =>
         /\ report[1].response_count = Len(tasks)
         /\ report[1].error_count = 0
         /\ Len(report[1].overall) = 1
         /\ EqualsInt(report[1].overall[1].success_rate, 1)

C11_Witness ==
    /\ Reported
    /\ Len(tasks) = 9
    /\ report[1].response_count = 9

====
